---- MODULE Spec2Model ----
(***************************************************************************)
(* EasyGrant: the text splitter (backend/src/utils/chunking.py), the       *)
(* citation extractor (backend/src/agents/section_generator.py), the       *)
(* paragraph locks (backend/src/utils/paragraph_lock.py and                *)
(* backend/src/models/section.py), the section routes that use them        *)
(* (backend/src/api/routes/sections.py), document indexing                 *)
(* (backend/src/services/indexing_service.py) and the upload routes with   *)
(* the session quota (backend/src/api/routes/upload.py,                    *)
(* backend/src/models/session.py, backend/src/utils/file_validation.py).   *)
(*                                                                         *)
(* A text is a sequence of one-character strings.  A token is a non-empty  *)
(* text; a token list is a sequence of tokens.                             *)
(***************************************************************************)
EXTENDS Integers, Sequences, FiniteSets, TLC

VARIABLES pc, chunk_size, chunk_overlap, op, text, stack, result,
          cpc, generated, available_citations, matches, used_citations,
          lpc, lop, new_text, locked_paragraphs, lresult,
          section_data, request, response,
          ipc, pages, page_no, texts, stored, index_result,
          session, upload,
          in_flight, running, last_update

chunkVars == <<pc, chunk_size, chunk_overlap, op, text, stack, result>>
citeVars == <<cpc, generated, available_citations, matches, used_citations>>
lockVars == <<lpc, lop, new_text, locked_paragraphs, lresult>>
sectionVars == <<section_data, request, response>>
indexVars == <<ipc, pages, page_no, texts, stored, index_result>>
uploadVars == <<session, upload>>
concVars == <<in_flight, running, last_update>>
vars == <<pc, chunk_size, chunk_overlap, op, text, stack, result,
          cpc, generated, available_citations, matches, used_citations,
          lpc, lop, new_text, locked_paragraphs, lresult,
          section_data, request, response,
          ipc, pages, page_no, texts, stored, index_result,
          session, upload,
          in_flight, running, last_update>>

(***************************************************************************)
(* Bounds of the model.                                                    *)
(***************************************************************************)
\* Longest text enumerated character by character.
MaxLen == 5
\* Longest enumerated text of the specification with fairness.
MaxLiveLen == 3
\* Token count of the longest separator-free token stream.
MaxBlob == 25
\* A window loop is cut off once it has produced this many windows more than
\* the stream has tokens (a loop that advances never produces that many).
MaxSpin == 2

NL == "\n"
Chars == {"a", " ", ".", NL}

Min(a, b) == IF a <= b THEN a ELSE b
Max(a, b) == IF a >= b THEN a ELSE b

(***************************************************************************)
(* Python str and list operations used by the splitter.                    *)
(***************************************************************************)
RECURSIVE Concat(_)
Concat(ss) == IF ss = <<>> THEN <<>> ELSE Head(ss) \o Concat(Tail(ss))

\* sub occurs in t at (1-based) position i
OccursAt(t, sub, i) ==
    /\ i >= 1
    /\ i + Len(sub) - 1 <= Len(t)
    /\ SubSeq(t, i, i + Len(sub) - 1) = sub

\* str.find, 1-based; 0 when there is no occurrence
Find(t, sub) ==
    IF \E i \in 1..Len(t) : OccursAt(t, sub, i)
    THEN CHOOSE i \in 1..Len(t) :
            /\ OccursAt(t, sub, i)
            /\ \A j \in 1..(i - 1) : ~OccursAt(t, sub, j)
    ELSE 0

\* `sub in t`: the empty string is in every string
StrIn(sub, t) == sub = <<>> \/ Find(t, sub) # 0

\* str.split(sep) for a non-empty sep: non-overlapping occurrences, left to right
RECURSIVE StrSplit(_, _)
StrSplit(t, sep) ==
    LET k == Find(t, sep)
    IN  IF k = 0 THEN <<t>>
        ELSE <<SubSeq(t, 1, k - 1)>> \o StrSplit(SubSeq(t, k + Len(sep), Len(t)), sep)

\* sep.join(parts)
RECURSIVE StrJoin(_, _)
StrJoin(sep, parts) ==
    IF parts = <<>> THEN <<>>
    ELSE IF Len(parts) = 1 THEN parts[1]
    ELSE parts[1] \o sep \o StrJoin(sep, Tail(parts))

\* list[a:b] with Python's treatment of negative and out-of-range indices
PySlice(s, a, b) ==
    LET n == Len(s)
        lo == IF a < 0 THEN Max(a + n, 0) ELSE Min(a, n)
        hi == IF b < 0 THEN Max(b + n, 0) ELSE Min(b, n)
    IN  SubSeq(s, lo + 1, hi)

\* list[-k:] for k > 0
PyTail(s, k) == SubSeq(s, Max(Len(s) - k, 0) + 1, Len(s))

(***************************************************************************)
(* The encoding.  tiktoken's cl100k_base is a byte-pair encoding: a text   *)
(* is cut, left to right, into the longest pieces of a fixed vocabulary,   *)
(* a blank space is merged into the word that follows it and a blank line  *)
(* is one token; decoding concatenates the pieces.  The vocabulary here    *)
(* is every single character plus those two merges, so token counts are    *)
(* not additive over concatenation, as with the real encoding.             *)
(***************************************************************************)
Merges == {<<NL, NL>>, <<" ", "a">>}

RECURSIVE encode(_)
encode(t) ==
    IF t = <<>> THEN <<>>
    ELSE IF Len(t) >= 2 /\ SubSeq(t, 1, 2) \in Merges
         THEN <<SubSeq(t, 1, 2)>> \o encode(SubSeq(t, 3, Len(t)))
         ELSE <<SubSeq(t, 1, 1)>> \o encode(Tail(t))

decode(tokens) == Concat(tokens)

count_tokens(t) == Len(encode(t))

(***************************************************************************)
(* RecursiveCharacterTextSplitter                                          *)
(***************************************************************************)
separators == << <<NL, NL>>, <<NL>>, <<".", " ">>, <<" ">>, <<>> >>

\* (the leading tokens instead of the trailing ones)
_get_overlap_text_Leading(chunks, separator) ==
    IF chunks = <<>> \/ chunk_overlap <= 0 THEN <<>>
    ELSE decode(SubSeq(encode(StrJoin(separator, chunks)), 1,
                       Min(chunk_overlap, count_tokens(StrJoin(separator, chunks)))))

\* lines 123-144
_get_overlap_text(chunks, separator) ==
    IF chunks = <<>> \/ chunk_overlap <= 0 THEN <<>>
    ELSE decode(PyTail(encode(StrJoin(separator, chunks)), chunk_overlap))

\* (mutant) the empty text is not recognised
IsEmptyText_Never(t) == FALSE

\* split_text, line 47: `if not text`
IsEmptyText(t) == t = <<>>

\* (mutant) a text of exactly chunk_size tokens is split
FitsChunk_Strict(t) == count_tokens(t) < chunk_size

\* split_text, line 51: the text is small enough to be a single chunk
FitsChunk(t) == count_tokens(t) <= chunk_size

\* (mutant) the overlap is subtracted from the window's start, not its end
NextStart_FromStart(start, end, n) == IF end < n THEN start - chunk_overlap ELSE end

\* (mutant) the windows do not overlap
NextStart_NoOverlap(start, end, n) == end

\* _split_by_tokens, line 166: the next window's start
NextStart(start, end, n) == IF end < n THEN end - chunk_overlap ELSE end

\* One activation of split_text (with the _merge_splits or _split_by_tokens
\* call it is in), or of _split_by_tokens called on its own.
Frame(t) ==
    [text |-> t, phase |-> "enter", sep |-> 1, splits |-> <<>>,
     current_chunk |-> <<>>, current_tokens |-> 0, chunks |-> <<>>,
     tokens |-> <<>>, start |-> 0]

TokensFrame(t) ==
    [Frame(t) EXCEPT !.phase = "tokens", !.tokens = encode(t)]

Top == stack[Len(stack)]

SetTop(f) == stack' = [stack EXCEPT ![Len(stack)] = f]

\* `return val` from the top activation: to the caller's
\* chunks.extend(sub_chunks), or out of the outermost call.
Return(val) ==
    IF Len(stack) = 1
    THEN /\ pc' = "returned"
         /\ result' = val
         /\ stack' = <<>>
    ELSE /\ stack' = [SubSeq(stack, 1, Len(stack) - 1) EXCEPT
                        ![Len(stack) - 1].chunks = @ \o val]
         /\ UNCHANGED <<pc, result>>

Configs ==
    {<<1, 0>>, <<2, 0>>, <<2, 1>>, <<3, 1>>, <<3, 2>>, <<10, 3>>, <<1, 1>>, <<1, 2>>}

TextsUpTo(len) == UNION {[1..n -> Chars] : n \in 0..len}

Blob(n) == [i \in 1..n |-> "a"]

\* Texts that nest every separator tier, and texts whose chunks meet the budget.
DeepTexts ==
    { <<NL, NL, "a", "a", " ", ".", " ", NL>>,
      <<"a", "a", " ", "a", "a", "a">>,
      <<"a", ".", " ", "a", " ", "a", NL, "a">> }

Texts == TextsUpTo(MaxLen) \cup DeepTexts \cup {Blob(MaxBlob)}

LiveTexts == TextsUpTo(MaxLiveLen) \cup DeepTexts \cup {Blob(MaxBlob)}

\* __init__: the two sizes are stored as given
Construct ==
    /\ pc = "new"
    /\ \E c \in Configs :
          /\ chunk_size' = c[1]
          /\ chunk_overlap' = c[2]
    /\ pc' = "ready"
    /\ UNCHANGED <<op, text, stack, result, citeVars, lockVars, sectionVars, indexVars, uploadVars, concVars>>

CallSplitText(inputs) ==
    /\ pc = "ready"
    /\ \E t \in inputs :
          /\ text' = t
          /\ stack' = <<Frame(t)>>
    /\ op' = "split_text"
    /\ pc' = "running"
    /\ UNCHANGED <<chunk_size, chunk_overlap, result, citeVars, lockVars, sectionVars, indexVars, uploadVars, concVars>>

CallSplitByTokens(inputs) ==
    /\ pc = "ready"
    /\ \E t \in inputs :
          /\ text' = t
          /\ stack' = <<TokensFrame(t)>>
    /\ op' = "_split_by_tokens"
    /\ pc' = "running"
    /\ UNCHANGED <<chunk_size, chunk_overlap, result, citeVars, lockVars, sectionVars, indexVars, uploadVars, concVars>>

\* split_text, lines 47-52
SplitTextEnter ==
    /\ pc = "running"
    /\ Top.phase = "enter"
    /\ IF IsEmptyText(Top.text) THEN Return(<<>>)
       ELSE IF FitsChunk(Top.text) THEN Return(<<Top.text>>)
       ELSE /\ SetTop([Top EXCEPT !.phase = "seps", !.sep = 1])
            /\ UNCHANGED <<pc, result>>
    /\ UNCHANGED <<chunk_size, chunk_overlap, op, text, citeVars, lockVars, sectionVars, indexVars, uploadVars, concVars>>

\* split_text, lines 55-63: one turn of the separator loop, up to the call of
\* _merge_splits; after the last separator, the call of _split_by_tokens
TrySeparator ==
    /\ pc = "running"
    /\ Top.phase = "seps"
    /\ IF Top.sep > Len(separators)
       THEN /\ SetTop([Top EXCEPT !.phase = "tokens", !.tokens = encode(Top.text),
                                  !.start = 0, !.chunks = <<>>])
            /\ UNCHANGED <<pc, result>>
       ELSE LET separator == separators[Top.sep]
            IN  IF ~StrIn(separator, Top.text)
                THEN /\ SetTop([Top EXCEPT !.sep = @ + 1])
                     /\ UNCHANGED <<pc, result>>
                ELSE IF separator = <<>>
                THEN \* text.split("") raises ValueError: empty separator
                     /\ pc' = "raised"
                     /\ UNCHANGED <<stack, result>>
                ELSE /\ SetTop([Top EXCEPT !.phase = "merge",
                                           !.splits = StrSplit(Top.text, separator),
                                           !.current_chunk = <<>>,
                                           !.current_tokens = 0,
                                           !.chunks = <<>>])
                     /\ UNCHANGED <<pc, result>>
    /\ UNCHANGED <<chunk_size, chunk_overlap, op, text, citeVars, lockVars, sectionVars, indexVars, uploadVars, concVars>>

\* _merge_splits, lines 79-115: one turn of the loop over the splits
MergeStep ==
    /\ pc = "running"
    /\ Top.phase = "merge"
    /\ Top.splits # <<>>
    /\ LET f == Top
           separator == separators[f.sep]
           split == Head(f.splits)
           rest == Tail(f.splits)
           split_tokens == count_tokens(split)
           joined == StrJoin(separator, f.current_chunk)
           new_tokens == f.current_tokens + split_tokens
                         + (IF separator # <<>> /\ f.current_chunk # <<>>
                            THEN count_tokens(separator) ELSE 0)
       IN  IF split = <<>>
           THEN SetTop([f EXCEPT !.splits = rest])
           ELSE IF split_tokens > chunk_size
           THEN LET g == IF f.current_chunk # <<>>
                         THEN [f EXCEPT !.splits = rest,
                                        !.chunks = Append(@, joined),
                                        !.current_chunk = <<>>,
                                        !.current_tokens = 0]
                         ELSE [f EXCEPT !.splits = rest]
                IN  stack' = [stack EXCEPT ![Len(stack)] = g] \o <<Frame(split)>>
           ELSE IF new_tokens <= chunk_size
           THEN SetTop([f EXCEPT !.splits = rest,
                                 !.current_chunk = Append(@, split),
                                 !.current_tokens = new_tokens])
           ELSE LET overlap_text == _get_overlap_text(f.current_chunk, separator)
                    next_chunk == IF overlap_text # <<>>
                                  THEN <<overlap_text, split>> ELSE <<split>>
                IN  SetTop([f EXCEPT !.splits = rest,
                                     !.chunks = IF f.current_chunk # <<>>
                                                THEN Append(@, joined) ELSE @,
                                     !.current_chunk = next_chunk,
                                     !.current_tokens =
                                         count_tokens(StrJoin(separator, next_chunk))])
    /\ UNCHANGED <<pc, result, chunk_size, chunk_overlap, op, text, citeVars, lockVars, sectionVars, indexVars, uploadVars, concVars>>

\* _merge_splits, lines 117-121, and split_text, lines 59-60
MergeEnd ==
    /\ pc = "running"
    /\ Top.phase = "merge"
    /\ Top.splits = <<>>
    /\ LET f == Top
           chunks == IF f.current_chunk # <<>>
                     THEN Append(f.chunks, StrJoin(separators[f.sep], f.current_chunk))
                     ELSE f.chunks
       IN  IF chunks # <<>> THEN Return(chunks)
           ELSE /\ SetTop([f EXCEPT !.phase = "seps", !.sep = @ + 1])
                /\ UNCHANGED <<pc, result>>
    /\ UNCHANGED <<chunk_size, chunk_overlap, op, text, citeVars, lockVars, sectionVars, indexVars, uploadVars, concVars>>

\* _split_by_tokens, lines 159-168: one turn of the window loop, or the return
WindowStep ==
    /\ pc = "running"
    /\ Top.phase = "tokens"
    /\ LET f == Top
           n == Len(f.tokens)
           end == Min(f.start + chunk_size, n)
           chunk_text == decode(PySlice(f.tokens, f.start, end))
       IN  IF f.start < n
           THEN /\ Len(f.chunks) < n + MaxSpin
                /\ SetTop([f EXCEPT !.chunks = Append(@, chunk_text),
                                    !.start = NextStart(f.start, end, n)])
                /\ UNCHANGED <<pc, result>>
           ELSE Return(f.chunks)
    /\ UNCHANGED <<chunk_size, chunk_overlap, op, text, citeVars, lockVars, sectionVars, indexVars, uploadVars, concVars>>

ChunkInit ==
    /\ pc = "new"
    /\ chunk_size = 0
    /\ chunk_overlap = 0
    /\ op = "none"
    /\ text = <<>>
    /\ stack = <<>>
    /\ result = <<>>

CiteIdle ==
    /\ cpc = "idle"
    /\ generated = <<>>
    /\ available_citations = <<>>
    /\ matches = <<>>
    /\ used_citations = <<>>

\* no function of paragraph_lock.py has been called
LockIdle ==
    /\ lpc = "idle"
    /\ lop = "none"
    /\ new_text = <<>>
    /\ locked_paragraphs = <<>>
    /\ lresult = <<>>

\* sections.py line 82: no section is stored, no request has been handled
NoSection ==
    [exists |-> FALSE, section_id |-> 0, text |-> <<>>, word_count |-> 0,
     locked_paragraphs |-> <<>>, locked_paragraphs_data |-> <<>>,
     warning |-> "None"]

NoRequest ==
    [handler |-> "none", text |-> <<>>, locked_paragraph_indices |-> <<>>,
     word_limit |-> 0]

NoResponse ==
    [status |-> 0, section_id |-> 0, text |-> <<>>, word_count |-> 0,
     locked_paragraphs |-> <<>>, warning |-> "None"]

SectionIdle ==
    /\ section_data = NoSection
    /\ request = NoRequest
    /\ response = NoResponse

\* indexing_service.py: index_document has not been called
NoIndexResult == [success |-> FALSE, chunk_count |-> 0, error |-> "None"]

IndexIdle ==
    /\ ipc = "idle"
    /\ pages = <<>>
    /\ page_no = 0
    /\ texts = <<>>
    /\ stored = <<>>
    /\ index_result = NoIndexResult

\* session.py lines 25-38: a new session; no upload request has been handled
NewSession ==
    [total_upload_size_bytes |-> 0, uploaded_file_count |-> 0,
     funding_call_uploaded |-> FALSE]

NoUpload == [handler |-> "none", status |-> 0, file_sizes |-> <<>>, uploaded |-> <<>>]

UploadIdle ==
    /\ session = NewSession
    /\ upload = NoUpload

\* Most requests for the section that are in flight together.
MaxInFlight == 2

\* no request is in flight, no handler holds the event loop
NoSlot ==
    [handler |-> "none", pos |-> "none", text |-> <<>>,
     locked_paragraph_indices |-> <<>>, locked_indices |-> <<>>,
     locked_data |-> <<>>]

ConcIdle ==
    /\ in_flight = [i \in 1..MaxInFlight |-> NoSlot]
    /\ running = 0
    /\ last_update = <<>>

Init ==
    /\ ChunkInit /\ CiteIdle /\ LockIdle /\ SectionIdle /\ IndexIdle /\ UploadIdle
    /\ ConcIdle

\* The steps of a call in progress.
Run ==
    \/ SplitTextEnter
    \/ TrySeparator
    \/ MergeStep
    \/ MergeEnd
    \/ WindowStep

Next ==
    \/ Construct
    \/ CallSplitText(Texts)
    \/ CallSplitByTokens(Texts)
    \/ Run

Spec == Init /\ [][Next]_vars

LiveNext ==
    \/ Construct
    \/ CallSplitText(LiveTexts)
    \/ CallSplitByTokens(LiveTexts)
    \/ Run

\* The splitter is synchronous code: a call in progress that can take a step
\* takes it.
LiveSpec == Init /\ [][LiveNext]_vars /\ WF_vars(Run)

(***************************************************************************)
(* SectionGenerator._extract_citations_from_text                           *)
(***************************************************************************)
\* Most pieces a generated text is made of, and most available citations.
MaxPieces == 2
MaxAvail == 2

IsSpace(c) == c = " "

IsDigit(c) == c \in {"0", "1", "2"}

DigitValue(c) == IF c = "1" THEN 1 ELSE IF c = "2" THEN 2 ELSE 0

\* int(page_str) for a string of digits
RECURSIVE ParseInt(_)
ParseInt(digits) ==
    IF digits = <<>> THEN 0
    ELSE 10 * ParseInt(SubSeq(digits, 1, Len(digits) - 1))
         + DigitValue(digits[Len(digits)])

\* str.lower() on one character and on a string
LowerChar(c) == IF c = "A" THEN "a" ELSE IF c = "B" THEN "b" ELSE c

Lower(s) == [i \in 1..Len(s) |-> LowerChar(s[i])]

\* the first position from i on that holds no whitespace (\s* is greedy)
RECURSIVE SkipSpaces(_, _)
SkipSpaces(t, i) ==
    IF i <= Len(t) /\ IsSpace(t[i]) THEN SkipSpaces(t, i + 1) ELSE i

\* (mutant) the page group takes any characters up to the closing bracket
RECURSIVE SkipDigits_ToBracket(_, _)
SkipDigits_ToBracket(t, i) ==
    IF i <= Len(t) /\ t[i] # "]" THEN SkipDigits_ToBracket(t, i + 1) ELSE i

\* the first position from i on that holds no digit (\d+ is greedy)
RECURSIVE SkipDigits(_, _)
SkipDigits(t, i) ==
    IF i <= Len(t) /\ IsDigit(t[i]) THEN SkipDigits(t, i + 1) ELSE i

\* ,\s*p\.\s*(\d+)\] matched from the comma at c: the match's page string and
\* the position of its closing bracket; end = 0 when there is no match
MarkerTail(t, c) ==
    LET p == SkipSpaces(t, c + 1)
        d == SkipSpaces(t, p + 2)
        e == SkipDigits(t, d)
    IN  IF /\ c <= Len(t) /\ t[c] = ","
           /\ p + 1 <= Len(t) /\ t[p] = "p" /\ t[p + 1] = "."
           /\ e > d
           /\ e <= Len(t) /\ t[e] = "]"
        THEN [page_str |-> SubSeq(t, d, e - 1), end |-> e]
        ELSE [page_str |-> <<>>, end |-> 0]

\* the commas at which a match opening at i can close its title: the title
\* [^\]]+ is non-empty and holds no closing bracket
TitleEnds(t, i) ==
    {c \in (i + 2)..Len(t) :
        /\ t[c] = ","
        /\ \A k \in (i + 1)..(c - 1) : t[k] # "]"
        /\ MarkerTail(t, c).end # 0}

\* the match of citation_pattern opening at i: the title is greedy, so it
\* runs to the last comma that lets the rest match
MatchAt(t, i) ==
    LET ends == IF t[i] = "[" THEN TitleEnds(t, i) ELSE {}
    IN  IF ends # {}
        THEN LET c == CHOOSE x \in ends : \A y \in ends : y <= x
                 tail == MarkerTail(t, c)
             IN  [doc_title |-> SubSeq(t, i + 1, c - 1),
                  page_str |-> tail.page_str,
                  end |-> tail.end]
        ELSE [doc_title |-> <<>>, page_str |-> <<>>, end |-> 0]

\* re.findall(citation_pattern, text): the non-overlapping matches, left to right
RECURSIVE FindAll(_, _)
FindAll(t, i) ==
    IF i > Len(t) THEN <<>>
    ELSE LET m == MatchAt(t, i)
         IN  IF m.end # 0
             THEN <<[doc_title |-> m.doc_title, page_str |-> m.page_str]>>
                  \o FindAll(t, m.end + 1)
             ELSE FindAll(t, i + 1)

\* (mutant) the page is not compared
PageMatches_Any(citation, page_num) == TRUE

\* (mutant) a citation is appended again each time a marker resolves to it
IsUsed_Never(citation, used) == FALSE

\* lines 311-312
TitleMatches(citation, doc_title) == Lower(citation.document_title) = Lower(doc_title)

PageMatches(citation, page_num) == citation.page_number = page_num

NoCitation == [document_title |-> <<>>, page_number |-> 0, chunk_text |-> "none"]

\* lines 310-322: the loop over available_citations from position i, with the
\* fallback found so far; it stops at the first exact match
RECURSIVE ScanCitations(_, _, _, _, _)
ScanCitations(available, i, doc_title, page_num, fallback_match) ==
    IF i > Len(available)
    THEN [exact_match |-> NoCitation, fallback_match |-> fallback_match]
    ELSE LET citation == available[i]
             title_matches == TitleMatches(citation, doc_title)
             page_matches == PageMatches(citation, page_num)
         IN  IF title_matches /\ page_matches
             THEN [exact_match |-> citation, fallback_match |-> fallback_match]
             ELSE IF title_matches /\ fallback_match = NoCitation
             THEN ScanCitations(available, i + 1, doc_title, page_num, citation)
             ELSE ScanCitations(available, i + 1, doc_title, page_num, fallback_match)

\* (mutant) only an exact match resolves a marker
CitationToUse_ExactOnly(available, marker) ==
    ScanCitations(available, 1, marker.doc_title,
                  ParseInt(marker.page_str), NoCitation).exact_match

\* (mutant) the fallback is the last citation of the marker's title
CitationToUse_LastFallback(available, marker) ==
    LET found == ScanCitations(available, 1, marker.doc_title,
                               ParseInt(marker.page_str), NoCitation)
        titled == {i \in 1..Len(available) :
                      TitleMatches(available[i], marker.doc_title)}
    IN  IF found.exact_match # NoCitation THEN found.exact_match
        ELSE IF titled = {} THEN NoCitation
        ELSE available[CHOOSE i \in titled : \A j \in titled : j <= i]

\* line 325: exact_match or fallback_match
CitationToUse(available, marker) ==
    LET found == ScanCitations(available, 1, marker.doc_title,
                               ParseInt(marker.page_str), NoCitation)
    IN  IF found.exact_match # NoCitation THEN found.exact_match
        ELSE found.fallback_match

\* `citation_to_use not in used_citations`: pydantic models compare by fields
IsUsed(citation, used) == \E k \in 1..Len(used) : used[k] = citation

\* line 301: int(page_str) raises ValueError on a string that is not a
\* decimal number
IntRaises(page_str) ==
    page_str = <<>> \/ \E k \in 1..Len(page_str) : ~IsDigit(page_str[k])

\* lines 300-333: the loop over the matches
RECURSIVE ExtractLoop(_, _, _)
ExtractLoop(todo, available, used) ==
    IF todo = <<>> THEN used
    ELSE LET citation_to_use == CitationToUse(available, Head(todo))
         IN  IF citation_to_use # NoCitation /\ ~IsUsed(citation_to_use, used)
             THEN ExtractLoop(Tail(todo), available, Append(used, citation_to_use))
             ELSE ExtractLoop(Tail(todo), available, used)


\* Inputs.  A citation's document_id, chunk_id and relevance_score are carried
\* by chunk_text: two citations of one page may differ in them.
Titles == {<<"A">>, <<"B">>}

Pages == {1, 2}

ChunkTexts == {"x", "y"}

Citations ==
    [document_title : Titles, page_number : Pages, chunk_text : ChunkTexts]

AvailableLists == UNION {[1..n -> Citations] : n \in 0..MaxAvail}

\* Pieces of generated text: well-formed markers (one in lower case without the
\* blank after the comma and with one after "p.", one with a leading zero), a
\* marker whose page is no number, an unterminated marker.
Pieces ==
    { <<"[", "a", ",", " ", "p", ".", "1", "]">>,
      <<"[", "A", ",", "p", ".", " ", "2", "]">>,
      <<"[", "B", ",", " ", "p", ".", "0", "1", "]">>,
      <<"[", "A", ",", " ", "p", ".", "x", "]">>,
      <<"[", "A", ",", " ", "p", ".", "1">> }

GeneratedTexts == {Concat(ps) : ps \in UNION {[1..n -> Pieces] : n \in 0..MaxPieces}}

\* a call of _extract_citations_from_text(text, available_citations)
CallExtract ==
    /\ cpc = "idle"
    /\ \E t \in GeneratedTexts, available \in AvailableLists :
          /\ generated' = t
          /\ available_citations' = available
    /\ cpc' = "called"
    /\ UNCHANGED <<matches, used_citations, chunkVars, lockVars, sectionVars, indexVars, uploadVars, concVars>>

\* _extract_citations_from_text, lines 285-342; nothing in it catches the
\* ValueError of int()
ExtractCitations ==
    /\ cpc = "called"
    /\ matches' = FindAll(generated, 1)
    /\ IF \E k \in 1..Len(matches') : IntRaises(matches'[k].page_str)
       THEN /\ used_citations' = <<>>
            /\ cpc' = "raised"
       ELSE /\ used_citations' = ExtractLoop(matches', available_citations, <<>>)
            /\ cpc' = "done"
    /\ UNCHANGED <<generated, available_citations, chunkVars, lockVars, sectionVars, indexVars, uploadVars, concVars>>

CiteNext ==
    \/ CallExtract
    \/ ExtractCitations

CiteSpec == Init /\ [][CiteNext]_vars

(***************************************************************************)
(* paragraph_lock.py: split_into_paragraphs, merge_paragraphs_with_locks   *)
(***************************************************************************)
\* Longest text split_into_paragraphs is called on, character by character.
MaxParaLen == 6
\* Most paragraphs of a text given to merge_paragraphs_with_locks.
MaxParas == 3
\* Most entries of a lock list, and the largest lock index.
MaxLocks == 2
MaxLockIdx == 3

\* str.strip() removes these from both ends
PyWhitespace == {" ", NL}

RECURSIVE LStrip(_)
LStrip(s) == IF s # <<>> /\ Head(s) \in PyWhitespace THEN LStrip(Tail(s)) ELSE s

RECURSIVE RStrip(_)
RStrip(s) ==
    IF s # <<>> /\ s[Len(s)] \in PyWhitespace
    THEN RStrip(SubSeq(s, 1, Len(s) - 1))
    ELSE s

Strip(s) == RStrip(LStrip(s))

\* (mutant) every piece is kept
IsParagraph_Always(p) == TRUE

\* line 26: `if p.strip()`
IsParagraph(p) == Strip(p) # <<>>

\* lines 22-26
split_into_paragraphs(t) ==
    IF t = <<>> THEN <<>>
    ELSE LET paragraphs == SelectSeq(StrSplit(t, <<NL, NL>>), IsParagraph)
         IN  [i \in 1..Len(paragraphs) |-> Strip(paragraphs[i])]

\* line 114: the dict of the (index, text) tuples; a later tuple of an index
\* replaces an earlier one
LockedKeys(locked) == {locked[k][1] : k \in 1..Len(locked)}

LockedDict(locked) ==
    [idx \in LockedKeys(locked) |->
        LET last == CHOOSE k \in 1..Len(locked) :
                        /\ locked[k][1] = idx
                        /\ \A j \in (k + 1)..Len(locked) : locked[j][1] # idx
        IN  locked[last][2]]

\* (mutant) the locks do not extend the merged sequence
max_idx_NewOnly(new_paragraphs, locked_dict) == Len(new_paragraphs) - 1

\* lines 117-120
max_idx(new_paragraphs, locked_dict) ==
    LET keys == DOMAIN locked_dict
        max_key == IF keys = {} THEN -1
                   ELSE CHOOSE k \in keys : \A j \in keys : j <= k
    IN  Max(Len(new_paragraphs) - 1, max_key)

\* lines 123-131: the loop over range(max_idx + 1), from i on
RECURSIVE MergeLoop(_, _, _, _)
MergeLoop(i, last, new_paragraphs, locked_dict) ==
    IF i > last THEN <<>>
    ELSE (IF i \in DOMAIN locked_dict THEN <<locked_dict[i]>>
          ELSE IF i < Len(new_paragraphs) THEN <<new_paragraphs[i + 1]>>
          ELSE <<>>)
         \o MergeLoop(i + 1, last, new_paragraphs, locked_dict)

\* lines 108-133
merge_paragraphs_with_locks(t, locked) ==
    IF locked = <<>> THEN t
    ELSE LET new_paragraphs == split_into_paragraphs(t)
             locked_dict == LockedDict(locked)
         IN  StrJoin(<<NL, NL>>,
                     MergeLoop(0, max_idx(new_paragraphs, locked_dict),
                               new_paragraphs, locked_dict))

\* Inputs.
ParaChars == {"a", "b", " ", NL}

ParaTexts == UNION {[1..n -> ParaChars] : n \in 0..MaxParaLen}

NewParas == {<<"a">>, <<"b">>}

\* texts of up to MaxParas paragraphs, and some with surrounding whitespace
\* or a longer run of line breaks
MergeTexts ==
    {StrJoin(<<NL, NL>>, ps) : ps \in UNION {[1..n -> NewParas] : n \in 0..MaxParas}}
    \cup { <<" ", "a">>, <<"a", NL>>, <<NL>>, <<"a", NL, NL, NL, "b">> }

LockTexts == {<<"L">>, <<"M">>}

LockTuples == (-1..MaxLockIdx) \X LockTexts

LockLists == UNION {[1..n -> LockTuples] : n \in 0..MaxLocks}

\* GeneratedSection.merge_with_locked_paragraphs (backend/src/models/
\* section.py).  Lines 11-27: the LockedParagraph objects of (index, text)
\* pairs.
LockedParagraphObjects(locked) ==
    [k \in 1..Len(locked) |-> [index |-> locked[k][1], text |-> locked[k][2]]]

\* section.py lines 233-234
section_new_paragraphs(t) ==
    LET pieces == SelectSeq(StrSplit(t, <<NL, NL>>), IsParagraph)
    IN  [i \in 1..Len(pieces) |-> Strip(pieces[i])]

\* section.py line 237: a later object of an index replaces an earlier one
section_locked_dict(lps) ==
    [idx \in {lps[k].index : k \in 1..Len(lps)} |->
        LET last == CHOOSE k \in 1..Len(lps) :
                        /\ lps[k].index = idx
                        /\ \A j \in (k + 1)..Len(lps) : lps[j].index # idx
        IN  lps[last].text]

\* (the locks do not extend the range)
section_merge_range_NewOnly(new_paragraphs, locked_dict) == Len(new_paragraphs)

\* section.py line 241: the bound of range(...)
section_merge_range(new_paragraphs, locked_dict) ==
    LET keys == DOMAIN locked_dict
        max_key == IF keys = {} THEN -1
                   ELSE CHOOSE k \in keys : \A j \in keys : j <= k
    IN  Max(Len(new_paragraphs), max_key + 1)

\* section.py lines 240-245: the loop over range(n), from i on
RECURSIVE SectionMergeLoop(_, _, _, _)
SectionMergeLoop(i, n, new_paragraphs, locked_dict) ==
    IF i >= n THEN <<>>
    ELSE (IF i \in DOMAIN locked_dict THEN <<locked_dict[i]>>
          ELSE IF i < Len(new_paragraphs) THEN <<new_paragraphs[i + 1]>>
          ELSE <<>>)
         \o SectionMergeLoop(i + 1, n, new_paragraphs, locked_dict)

\* section.py lines 229-247; lps is self.locked_paragraphs
merge_with_locked_paragraphs(lps, t) ==
    IF lps = <<>> THEN t
    ELSE LET new_paragraphs == section_new_paragraphs(t)
             locked_dict == section_locked_dict(lps)
         IN  StrJoin(<<NL, NL>>,
                     SectionMergeLoop(0, section_merge_range(new_paragraphs, locked_dict),
                                      new_paragraphs, locked_dict))

CallSplitIntoParagraphs ==
    /\ lpc = "idle"
    /\ \E t \in ParaTexts : new_text' = t
    /\ lop' = "split_into_paragraphs"
    /\ lpc' = "called"
    /\ UNCHANGED <<locked_paragraphs, lresult, chunkVars, citeVars, sectionVars, indexVars, uploadVars, concVars>>

CallMergeParagraphs ==
    /\ lpc = "idle"
    /\ \E t \in MergeTexts, locked \in LockLists :
          /\ new_text' = t
          /\ locked_paragraphs' = locked
    /\ lop' = "merge_paragraphs_with_locks"
    /\ lpc' = "called"
    /\ UNCHANGED <<lresult, chunkVars, citeVars, sectionVars, indexVars, uploadVars, concVars>>

ReturnSplitIntoParagraphs ==
    /\ lpc = "called"
    /\ lop = "split_into_paragraphs"
    /\ lresult' = split_into_paragraphs(new_text)
    /\ lpc' = "returned"
    /\ UNCHANGED <<lop, new_text, locked_paragraphs, chunkVars, citeVars, sectionVars, indexVars, uploadVars, concVars>>

ReturnMergeParagraphs ==
    /\ lpc = "called"
    /\ lop = "merge_paragraphs_with_locks"
    /\ lresult' = merge_paragraphs_with_locks(new_text, locked_paragraphs)
    /\ lpc' = "returned"
    /\ UNCHANGED <<lop, new_text, locked_paragraphs, chunkVars, citeVars, sectionVars, indexVars, uploadVars, concVars>>

\* a GeneratedSection with these locks is asked to merge a new text
CallMergeWithLocked ==
    /\ lpc = "idle"
    /\ \E t \in MergeTexts, locked \in LockLists :
          /\ new_text' = t
          /\ locked_paragraphs' = locked
    /\ lop' = "merge_with_locked_paragraphs"
    /\ lpc' = "called"
    /\ UNCHANGED <<lresult, chunkVars, citeVars, sectionVars, indexVars, uploadVars, concVars>>

ReturnMergeWithLocked ==
    /\ lpc = "called"
    /\ lop = "merge_with_locked_paragraphs"
    /\ lresult' = merge_with_locked_paragraphs(LockedParagraphObjects(locked_paragraphs),
                                               new_text)
    /\ lpc' = "returned"
    /\ UNCHANGED <<lop, new_text, locked_paragraphs, chunkVars, citeVars, sectionVars, indexVars, uploadVars, concVars>>

LockNext ==
    \/ CallSplitIntoParagraphs
    \/ CallMergeParagraphs
    \/ CallMergeWithLocked
    \/ ReturnSplitIntoParagraphs
    \/ ReturnMergeParagraphs
    \/ ReturnMergeWithLocked

LockSpec == Init /\ [][LockNext]_vars

(***************************************************************************)
(* sections.py: generate_section, update_section, regenerate_section on    *)
(* one section of one session.  section_data is the section's entry of     *)
(* _generated_sections; request and response are those of the last         *)
(* request handled.  No handler awaits between its first and last          *)
(* statement, so each is one step.                                         *)
(***************************************************************************)
\* Most paragraphs of the plain texts a request or the language model
\* brings; the lock indices of a request run from -1 to this number.
MaxSecParas == 1

\* Largest word_limit of a request.
MaxWordLimit == 1

\* HTTPException raised by a handler: the section is left as it was
ErrorResponse(code) ==
    [status |-> code, section_id |-> 0, text |-> <<>>, word_count |-> 0,
     locked_paragraphs |-> <<>>, warning |-> "None"]

\* str.split(): the maximal runs of characters that are no whitespace, the
\* run in progress being the second argument
RECURSIVE SplitWhitespace(_, _)
SplitWhitespace(t, run) ==
    IF t = <<>> THEN (IF run = <<>> THEN <<>> ELSE <<run>>)
    ELSE IF Head(t) \in PyWhitespace
         THEN (IF run = <<>> THEN <<>> ELSE <<run>>) \o SplitWhitespace(Tail(t), <<>>)
         ELSE SplitWhitespace(Tail(t), Append(run, Head(t)))

IsWord(w) == w # <<>>

\* (mutant) the characters are counted
count_words_Chars(t) == Len(t)

\* paragraph_lock.py lines 145-150
count_words(t) ==
    IF t = <<>> THEN 0
    ELSE Len(SelectSeq(SplitWhitespace(Strip(t), <<>>), IsWord))

\* section_generator.py line 96: len(generated_text.split())
generated_word_count(generated_text) == Len(SplitWhitespace(generated_text, <<>>))

\* section_generator.py lines 112-119; a word_limit of None is 0 here (both
\* fail the test `if word_limit`), and > word_limit * 0.9 is taken times 10
generation_warning(word_limit, word_count) ==
    IF word_limit # 0 /\ word_count > word_limit
    THEN "Section exceeds word limit"
    ELSE IF word_limit # 0 /\ 10 * word_count > 9 * word_limit
    THEN "Section is close to word limit"
    ELSE "None"

\* list[idx] with Python's negative indices; IndexError outside the list
PyIndexRaises(s, idx) == idx >= Len(s) \/ idx < 0 - Len(s)

PyIndex(s, idx) == IF idx >= 0 THEN s[idx + 1] ELSE s[Len(s) + idx + 1]

\* (mutant) every requested index is taken
ValidIndex_Any(idx, paragraphs) == TRUE

\* line 329
ValidIndex(idx, paragraphs) == 0 <= idx /\ idx < Len(paragraphs)

\* lines 327-330
RECURSIVE valid_indices(_, _)
valid_indices(indices, paragraphs) ==
    IF indices = <<>> THEN <<>>
    ELSE (IF ValidIndex(Head(indices), paragraphs) THEN <<Head(indices)>> ELSE <<>>)
         \o valid_indices(Tail(indices), paragraphs)

\* lines 340-343
locked_paragraphs_data(valid, paragraphs) ==
    [k \in 1..Len(valid) |-> [index |-> valid[k], text |-> PyIndex(paragraphs, valid[k])]]

\* (mutant) the locks are not handed to the merge
locked_tuples_None(data) == <<>>

\* line 459
locked_tuples(data) == [k \in 1..Len(data) |-> <<data[k].index, data[k].text>>]

\* (mutant) a regeneration forgets the locks
regenerated_DropsLocks(section, merged_text, warning) ==
    [section EXCEPT !.text = merged_text, !.word_count = count_words(merged_text),
                    !.warning = warning, !.locked_paragraphs = <<>>,
                    !.locked_paragraphs_data = <<>>]

\* lines 468-475: the section as regenerate_section leaves it
regenerated(section, merged_text, warning) ==
    [section EXCEPT !.text = merged_text, !.word_count = count_words(merged_text),
                    !.warning = warning]

\* Inputs: the text of a request or of the language model (plain texts of
\* one-letter paragraphs, and three more: leading whitespace, two paragraphs
\* three line breaks apart, a paragraph of two words), the word_limit and the
\* lock indices of a request, the identifiers uuid4 draws.
SectionTexts ==
    {StrJoin(<<NL, NL>>, ps) : ps \in UNION {[1..n -> NewParas] : n \in 0..MaxSecParas}}
    \cup { <<" ", "a">>, <<"a", NL, NL, NL, "b">>, <<"a", " ", "b">> }

WordLimits == 0..MaxWordLimit

SectionIds == {1, 2}

\* no index, one, or two (the same one twice included)
Indices == (-1)..MaxSecParas

IndexLists ==
    {<<>>} \cup {<<i>> : i \in Indices} \cup {<<i, j>> : i \in Indices, j \in Indices}

Outcomes == {"ok", "no session", "generation raises"}

\* lines 111-233; uuid4 never draws the identifier the section had
generate_section(outcome, generated_text, word_limit, section_id) ==
    /\ request' = [handler |-> "generate_section", text |-> <<>>,
                   locked_paragraph_indices |-> <<>>, word_limit |-> word_limit]
    /\ IF outcome = "no session"
       THEN /\ response' = ErrorResponse(404)
            /\ UNCHANGED section_data
       ELSE IF outcome = "generation raises"
       THEN /\ response' = ErrorResponse(500)
            /\ UNCHANGED section_data
       ELSE \E word_count \in {generated_word_count(generated_text)} :
              \E warning \in {generation_warning(word_limit, word_count)} :
                 /\ section_data' =
                       [exists |-> TRUE, section_id |-> section_id,
                        text |-> generated_text, word_count |-> word_count,
                        locked_paragraphs |-> <<>>,
                        locked_paragraphs_data |-> <<>>, warning |-> warning]
                 /\ response' =
                       [status |-> 200, section_id |-> section_id,
                        text |-> generated_text, word_count |-> word_count,
                        locked_paragraphs |-> <<>>, warning |-> warning]

\* lines 310-385
update_section(t, indices) ==
    /\ request' = [handler |-> "update_section", text |-> t,
                   locked_paragraph_indices |-> indices, word_limit |-> 0]
    /\ IF ~section_data.exists
       THEN /\ response' = ErrorResponse(404)
            /\ UNCHANGED section_data
       ELSE \E paragraphs \in {split_into_paragraphs(t)} :
              \E valid \in {valid_indices(indices, paragraphs)} :
                 IF \E k \in 1..Len(valid) : PyIndexRaises(paragraphs, valid[k])
                 THEN /\ response' = ErrorResponse(500)
                      /\ UNCHANGED section_data
                 ELSE /\ section_data' =
                            [section_data EXCEPT
                               !.text = t,
                               !.word_count = count_words(t),
                               !.locked_paragraphs = valid,
                               !.locked_paragraphs_data =
                                   locked_paragraphs_data(valid, paragraphs)]
                      /\ response' =
                            [status |-> 200, section_id |-> section_data.section_id,
                             text |-> t, word_count |-> count_words(t),
                             locked_paragraphs |-> valid,
                             warning |-> section_data.warning]

\* lines 408-515; locked_indices and locked_data are what lines 428-429 read
regenerate_section(outcome, generated_text, word_limit, locked_indices, locked_data) ==
    /\ request' = [handler |-> "regenerate_section", text |-> <<>>,
                   locked_paragraph_indices |-> <<>>, word_limit |-> word_limit]
    /\ IF outcome = "no session" \/ ~section_data.exists
       THEN /\ response' = ErrorResponse(404)
            /\ UNCHANGED section_data
       ELSE IF outcome = "generation raises"
       THEN /\ response' = ErrorResponse(500)
            /\ UNCHANGED section_data
       ELSE \E merged_text \in
                  {IF locked_data # <<>>
                   THEN merge_paragraphs_with_locks(generated_text,
                                                    locked_tuples(locked_data))
                   ELSE generated_text},
               warning \in {generation_warning(word_limit,
                                               generated_word_count(generated_text))} :
              /\ section_data' = regenerated(section_data, merged_text, warning)
              /\ response' =
                    [status |-> 200, section_id |-> section_data.section_id,
                     text |-> merged_text, word_count |-> section_data'.word_count,
                     locked_paragraphs |-> locked_indices, warning |-> warning]

\* the requests, one at a time
GenerateRequest ==
    /\ \E outcome \in Outcomes :
          IF outcome = "ok"
          THEN \E generated_text \in SectionTexts, word_limit \in WordLimits,
                  section_id \in SectionIds \ {section_data.section_id} :
                  generate_section(outcome, generated_text, word_limit, section_id)
          ELSE generate_section(outcome, <<>>, 0, 0)
    /\ UNCHANGED <<chunkVars, citeVars, lockVars, indexVars, uploadVars, concVars>>

UpdateRequest ==
    /\ \E t \in SectionTexts, indices \in IndexLists : update_section(t, indices)
    /\ UNCHANGED <<chunkVars, citeVars, lockVars, indexVars, uploadVars, concVars>>

RegenerateRequest ==
    /\ \E outcome \in Outcomes :
          IF outcome = "ok"
          THEN \E generated_text \in SectionTexts, word_limit \in WordLimits :
                  regenerate_section(outcome, generated_text, word_limit,
                                     section_data.locked_paragraphs,
                                     section_data.locked_paragraphs_data)
          ELSE regenerate_section(outcome, <<>>, 0, <<>>, <<>>)
    /\ UNCHANGED <<chunkVars, citeVars, lockVars, indexVars, uploadVars, concVars>>

SectionNext ==
    \/ GenerateRequest
    \/ UpdateRequest
    \/ RegenerateRequest

SectionSpec == Init /\ [][SectionNext]_vars

(***************************************************************************)
(* Requests for one section in flight together.  The handlers are          *)
(* coroutines of one event loop: a handler that has started keeps the      *)
(* loop until it awaits or ends.  in_flight holds the requests received    *)
(* and not yet answered, each with the position of its handler and what    *)
(* the handler has read; running is the request whose handler holds the    *)
(* loop (0: none); last_update is the lock data the last successful        *)
(* update_section stored.                                                  *)
(***************************************************************************)
\* (the handler awaits the generation and yields the loop)
AwaitsGeneration_Yields == TRUE

\* sections.py lines 432-453: retrieve_for_section and generate_section are
\* plain calls; no statement of update_section or regenerate_section awaits
AwaitsGeneration == FALSE

ConcTexts == NewParas

ConcIndexLists == {<<>>, <<0>>}

UpdateSlot(t, indices) ==
    [NoSlot EXCEPT !.handler = "update_section", !.pos = "received",
                   !.text = t, !.locked_paragraph_indices = indices]

RegenerateSlot == [NoSlot EXCEPT !.handler = "regenerate_section", !.pos = "received"]

FreeSlots == {i \in 1..MaxInFlight : in_flight[i].handler = "none"}

\* the section is generated once, before the requests the model follows
ConcGenerate ==
    /\ ~section_data.exists
    /\ running = 0
    /\ \E outcome \in Outcomes :
          IF outcome = "ok"
          THEN \E generated_text \in ConcTexts, section_id \in SectionIds :
                  generate_section(outcome, generated_text, 0, section_id)
          ELSE generate_section(outcome, <<>>, 0, 0)
    /\ UNCHANGED <<chunkVars, citeVars, lockVars, indexVars, uploadVars, concVars>>

\* a request arrives; its handler has not started
Receive ==
    /\ FreeSlots # {}
    /\ \E i \in FreeSlots :
          /\ \A j \in FreeSlots : i <= j
          /\ \E r \in {UpdateSlot(t, indices) : t \in ConcTexts, indices \in ConcIndexLists}
                     \cup {RegenerateSlot} :
                in_flight' = [in_flight EXCEPT ![i] = r]
    /\ UNCHANGED <<running, last_update, chunkVars, citeVars, lockVars, sectionVars,
                   indexVars, uploadVars>>

\* update_section, lines 310-385, from start to answer
UpdateHandler ==
    /\ running = 0
    /\ \E i \in 1..MaxInFlight :
          /\ in_flight[i].handler = "update_section"
          /\ update_section(in_flight[i].text, in_flight[i].locked_paragraph_indices)
          /\ in_flight' = [in_flight EXCEPT ![i] = NoSlot]
    /\ last_update' = IF response'.status = 200
                      THEN section_data'.locked_paragraphs_data
                      ELSE last_update
    /\ UNCHANGED <<running, chunkVars, citeVars, lockVars, indexVars, uploadVars>>

\* regenerate_section, lines 408-429: the checks and the read of the locks
RegenerateRead ==
    /\ running = 0
    /\ \E i \in 1..MaxInFlight, session_found \in BOOLEAN :
          /\ in_flight[i].handler = "regenerate_section"
          /\ in_flight[i].pos = "received"
          /\ IF ~session_found \/ ~section_data.exists
             THEN /\ regenerate_section("no session", <<>>, 0, <<>>, <<>>)
                  /\ in_flight' = [in_flight EXCEPT ![i] = NoSlot]
                  /\ UNCHANGED running
             ELSE /\ in_flight' =
                        [in_flight EXCEPT
                           ![i].pos = "generating",
                           ![i].locked_indices = section_data.locked_paragraphs,
                           ![i].locked_data = section_data.locked_paragraphs_data]
                  /\ running' = IF AwaitsGeneration THEN 0 ELSE i
                  /\ UNCHANGED sectionVars
    /\ UNCHANGED <<last_update, chunkVars, citeVars, lockVars, indexVars, uploadVars>>

\* regenerate_section, lines 432-515: generation, merge with the locks that
\* were read, update of the stored section
RegenerateWrite ==
    /\ \E i \in 1..MaxInFlight :
          /\ in_flight[i].pos = "generating"
          /\ running = IF AwaitsGeneration THEN 0 ELSE i
          /\ \E outcome \in {"ok", "generation raises"} :
                IF outcome = "ok"
                THEN \E generated_text \in {<<>>} \cup ConcTexts :
                        regenerate_section(outcome, generated_text, 0,
                                           in_flight[i].locked_indices,
                                           in_flight[i].locked_data)
                ELSE regenerate_section(outcome, <<>>, 0, <<>>, <<>>)
          /\ in_flight' = [in_flight EXCEPT ![i] = NoSlot]
    /\ running' = 0
    /\ UNCHANGED <<last_update, chunkVars, citeVars, lockVars, indexVars, uploadVars>>

ConcNext ==
    \/ ConcGenerate
    \/ Receive
    \/ UpdateHandler
    \/ RegenerateRead
    \/ RegenerateWrite

ConcSpec == Init /\ [][ConcNext]_vars

(***************************************************************************)
(* IndexingService.index_document (backend/src/services/                   *)
(* indexing_service.py): parse, split each page, store.  The text of a     *)
(* page goes through the splitter above; the position ipc names the        *)
(* statement index_document is at, and at the end the return it left by.   *)
(***************************************************************************)
\* Most pages of a parsed document.
MaxPages == 2

\* the texts DocumentParser.parse_file finds on a page: empty, whitespace,
\* a word, two words, and a word too long for the smallest chunk_size
PageTexts == { <<>>, <<" ">>, <<"a">>, <<"a", " ", "a">>, <<"a", "a">> }

PageLists == UNION {[1..n -> PageTexts] : n \in 0..MaxPages}

\* what parse_file and add_documents do: return, or raise
CallOutcomes == {"returns", "raises"}

\* lines 86-87: a chunk that is empty once stripped is skipped
IsStoredChunk(chunk_text) == Strip(chunk_text) # <<>>

\* lines 66-71
NoContentResult ==
    [success |-> FALSE, chunk_count |-> 0,
     error |-> "No content extracted from document"]

\* lines 105-110
NoChunksResult ==
    [success |-> FALSE, chunk_count |-> 0,
     error |-> "No text chunks generated from document"]

\* lines 115-120
SuccessResult(n) == [success |-> TRUE, chunk_count |-> n, error |-> "None"]

\* lines 122-128: the error is str(e)
ExceptionResult == [success |-> FALSE, chunk_count |-> 0, error |-> "str(e)"]

\* lines 55-74: parse_file, and the return for a document without pages
IndexDocument ==
    /\ ipc = "idle"
    /\ pc = "ready"
    /\ \E parse \in CallOutcomes, ps \in PageLists :
          IF parse = "raises"
          THEN /\ ps = <<>>
               /\ ipc' = "return 123"
               /\ index_result' = ExceptionResult
               /\ UNCHANGED <<pages, page_no>>
          ELSE IF ps = <<>>
          THEN /\ ipc' = "return 66"
               /\ index_result' = NoContentResult
               /\ UNCHANGED <<pages, page_no>>
          ELSE /\ ipc' = "next page"
               /\ pages' = ps
               /\ page_no' = 1
               /\ UNCHANGED index_result
    /\ UNCHANGED <<texts, stored, chunkVars, citeVars, lockVars, sectionVars, uploadVars, concVars>>

\* lines 78-83: the call of split_text on the text of the next page
SplitPage ==
    /\ ipc = "next page"
    /\ page_no <= Len(pages)
    /\ text' = pages[page_no]
    /\ stack' = <<Frame(pages[page_no])>>
    /\ op' = "split_text"
    /\ pc' = "running"
    /\ ipc' = "split_text"
    /\ UNCHANGED <<chunk_size, chunk_overlap, result, pages, page_no, texts,
                   stored, index_result, citeVars, lockVars, sectionVars, uploadVars, concVars>>

\* lines 85-97: the chunks of the page that are kept
CollectPage ==
    /\ ipc = "split_text"
    /\ pc = "returned"
    /\ texts' = texts \o SelectSeq(result, IsStoredChunk)
    /\ page_no' = page_no + 1
    /\ ipc' = "next page"
    /\ UNCHANGED <<pages, stored, index_result, chunkVars, citeVars, lockVars,
                   sectionVars, uploadVars, concVars>>

\* lines 122-128, for an exception out of split_text
SplitRaises ==
    /\ ipc = "split_text"
    /\ pc = "raised"
    /\ ipc' = "return 123"
    /\ index_result' = ExceptionResult
    /\ UNCHANGED <<pages, page_no, texts, stored, chunkVars, citeVars, lockVars,
                   sectionVars, uploadVars, concVars>>

\* lines 104-120 (and 122-128 when add_documents raises)
StoreChunks ==
    /\ ipc = "next page"
    /\ page_no > Len(pages)
    /\ IF texts = <<>>
       THEN /\ ipc' = "return 105"
            /\ index_result' = NoChunksResult
            /\ UNCHANGED stored
       ELSE \E add_documents \in CallOutcomes :
              IF add_documents = "raises"
              THEN /\ ipc' = "return 123"
                   /\ index_result' = ExceptionResult
                   /\ UNCHANGED stored
              ELSE /\ ipc' = "return 115"
                   /\ index_result' = SuccessResult(Len(texts))
                   /\ stored' = texts
    /\ UNCHANGED <<pages, page_no, texts, chunkVars, citeVars, lockVars,
                   sectionVars, uploadVars, concVars>>

\* A call of split_text made by index_document runs as any other; the forced
\* token split is never reached from split_text.
IndexNext ==
    \/ Construct
    \/ IndexDocument
    \/ SplitPage
    \/ SplitTextEnter
    \/ TrySeparator
    \/ MergeStep
    \/ MergeEnd
    \/ CollectPage
    \/ SplitRaises
    \/ StoreChunks

IndexSpec == Init /\ [][IndexNext]_vars

(***************************************************************************)
(* The upload routes (backend/src/api/routes/upload.py) and the quota of   *)
(* a session (backend/src/models/session.py, backend/src/utils/            *)
(* file_validation.py).  session is the UserSession of the requests;       *)
(* upload is the last request handled: its handler, its status, the sizes  *)
(* of its files and, file by file, whether the file was recorded.          *)
(***************************************************************************)
\* Most files of one supporting-docs request.
MaxFiles == 2

\* session.py line 59, file_validation.py lines 17-19, upload.py line 162
MAX_TOTAL_SIZE == 52428800
MAX_FUNDING_CALL_SIZE == 10485760
MAX_SUPPORTING_DOC_SIZE == 10485760
MAX_TOTAL_SUPPORTING_SIZE == 52428800
max_supporting_docs == 5

\* file_validation.py lines 57-91
validate_file_size(file_size, is_funding_call, current_total_size) ==
    IF is_funding_call
    THEN file_size <= MAX_FUNDING_CALL_SIZE
    ELSE /\ file_size <= MAX_SUPPORTING_DOC_SIZE
         /\ current_total_size + file_size <= MAX_TOTAL_SUPPORTING_SIZE

\* file_validation.py lines 94-118; the size check is called without the
\* session's total
validate_funding_call_pdf(is_pdf, file_size) ==
    is_pdf /\ validate_file_size(file_size, TRUE, 0)

\* session.py lines 104-117; the field validators of lines 55-75 run when a
\* UserSession is constructed, not on these assignments
add_upload(s, file_size_bytes, is_funding_call) ==
    [s EXCEPT !.total_upload_size_bytes = @ + file_size_bytes,
              !.uploaded_file_count = @ + 1,
              !.funding_call_uploaded = @ \/ is_funding_call]

\* Inputs: a file is its size in bytes (5 MB, 10 MB, one byte more) and
\* whether its name and magic bytes pass the type check.
FileSizes == {5242880, 10485760, 10485761}

Files == [size : FileSizes, type_ok : BOOLEAN]

FileLists == UNION {[1..n -> Files] : n \in 1..MaxFiles}

\* upload.py lines 177-248: the loop over the files of a request; the
\* session after it, and per file whether it was recorded
RECURSIVE SupportingLoop(_, _)
SupportingLoop(s, files) ==
    IF files = <<>> THEN [session |-> s, uploaded |-> <<>>]
    ELSE LET f == Head(files)
             ok == /\ f.type_ok
                   /\ validate_file_size(f.size, FALSE, s.total_upload_size_bytes)
             rest == SupportingLoop(IF ok THEN add_upload(s, f.size, FALSE) ELSE s,
                                    Tail(files))
         IN  [rest EXCEPT !.uploaded = <<ok>> \o @]

Sizes(files) == [i \in 1..Len(files) |-> files[i].size]

\* upload.py lines 30-132
upload_funding_call ==
    /\ \E f \in Files :
          IF session.funding_call_uploaded
             \/ ~validate_funding_call_pdf(f.type_ok, f.size)
          THEN /\ upload' = [handler |-> "upload_funding_call", status |-> 400,
                             file_sizes |-> <<f.size>>, uploaded |-> <<FALSE>>]
               /\ UNCHANGED session
          ELSE /\ session' = add_upload(session, f.size, TRUE)
               /\ upload' = [handler |-> "upload_funding_call", status |-> 200,
                             file_sizes |-> <<f.size>>, uploaded |-> <<TRUE>>]
    /\ UNCHANGED <<chunkVars, citeVars, lockVars, sectionVars, indexVars, concVars>>

\* upload.py lines 135-284
upload_supporting_docs ==
    /\ \E files \in FileLists :
          LET current_supporting_count ==
                  session.uploaded_file_count
                      - (IF session.funding_call_uploaded THEN 1 ELSE 0)
          IN  IF current_supporting_count + Len(files) > max_supporting_docs
              THEN /\ upload' = [handler |-> "upload_supporting_docs", status |-> 400,
                                 file_sizes |-> Sizes(files),
                                 uploaded |-> [i \in 1..Len(files) |-> FALSE]]
                   /\ UNCHANGED session
              ELSE \E done \in {SupportingLoop(session, files)} :
                      /\ session' = done.session
                      /\ upload' = [handler |-> "upload_supporting_docs",
                                    status |-> 200, file_sizes |-> Sizes(files),
                                    uploaded |-> done.uploaded]
    /\ UNCHANGED <<chunkVars, citeVars, lockVars, sectionVars, indexVars, concVars>>

UploadNext ==
    \/ upload_funding_call
    \/ upload_supporting_docs

UploadSpec == Init /\ [][UploadNext]_vars

(***************************************************************************)
(* Properties of the splitter.                                             *)
(***************************************************************************)
ValidConfig == 0 <= chunk_overlap /\ chunk_overlap < chunk_size

Returned(o) == pc = "returned" /\ op = o

Whitespace == {" ", NL}

IsNonWs(c) == c \notin Whitespace

\* the non-whitespace characters of a text, in order
NonWs(t) == SelectSeq(t, IsNonWs)

SeparatorFree(t) == \A k \in 1..(Len(separators) - 1) : ~StrIn(separators[k], t)

\* The windows of a token stream as the specification words them: window k
\* (from 0) starts at k * (size - overlap), holds up to size tokens, and is
\* the last one as soon as it reaches the end of the stream.
WindowStart(k) == k * (chunk_size - chunk_overlap)

WindowEnd(k, n) == Min(WindowStart(k) + chunk_size, n)

WindowCount(n) ==
    Cardinality({k \in 0..n : k < n /\ \A j \in 0..(k - 1) : WindowEnd(j, n) < n})

ExpectedWindows(tokens) ==
    [k \in 1..WindowCount(Len(tokens)) |->
        decode(SubSeq(tokens, WindowStart(k - 1) + 1,
                      WindowEnd(k - 1, Len(tokens))))]

\* C1: every chunk split_text returns under a valid configuration (none of
\* them comes from the forced token split, which split_text never reaches)
\* has at most chunk_size tokens.
C1_ChunkBudget ==
    (Returned("split_text") /\ ValidConfig)
        => \A i \in 1..Len(result) : count_tokens(result[i]) <= chunk_size

\* C2: under a valid configuration every call ends (it returns, or raises);
\* the nesting of split_text activations never exceeds the number of
\* separator tiers; and every turn of the window loop of _split_by_tokens
\* moves its start offset forward.
Ended == pc \in {"returned", "raised"}

WindowLoopTurn ==
    /\ stack # <<>>
    /\ stack' # <<>>
    /\ Len(stack') = Len(stack)
    /\ Top.phase = "tokens"
    /\ Len(stack'[Len(stack)].chunks) = Len(Top.chunks) + 1

C2_Terminates ==
    /\ [](Len(stack) <= Len(separators))
    /\ [][(ValidConfig /\ WindowLoopTurn) => stack'[Len(stack)].start > Top.start]_vars
    /\ (pc = "running" /\ ValidConfig) ~> Ended

C2_Witness ==
    /\ Returned("split_text")
    /\ ValidConfig
    /\ chunk_size = 1
    /\ text = <<"a", ".", " ", "a", " ", "a", NL, "a">>
    /\ Len(result) = 4

\* C3: an oversized text (or oversized segment reached by recursion) that
\* contains no separator is hard-split: the activation working on it does
\* not raise, and split_text returns the token windows for it.
C3_HardSplitFallback ==
    /\ (pc = "raised" /\ op = "split_text")
          => ~(SeparatorFree(Top.text) /\ count_tokens(Top.text) > chunk_size)
    /\ (Returned("split_text") /\ ValidConfig /\ SeparatorFree(text)
          /\ count_tokens(text) > chunk_size)
          => result = ExpectedWindows(encode(text))

\* C4: _split_by_tokens under a valid configuration returns the windows
\* starting at 0, s, 2s, ... (s = chunk_size - chunk_overlap), each of at
\* most chunk_size tokens, the last one ending at the end of the stream,
\* together covering every token, consecutive ones sharing exactly
\* chunk_overlap tokens.
C4_Windows ==
    (Returned("_split_by_tokens") /\ ValidConfig) =>
        LET tokens == encode(text)
            n == Len(tokens)
            K == Len(result)
        IN  /\ \A k \in 1..K :
                  /\ WindowStart(k - 1) < n
                  /\ result[k] = decode(SubSeq(tokens, WindowStart(k - 1) + 1,
                                               WindowEnd(k - 1, n)))
                  /\ WindowEnd(k - 1, n) - WindowStart(k - 1) <= chunk_size
            /\ \A i \in 1..n : \E k \in 1..K :
                  WindowStart(k - 1) < i /\ i <= WindowEnd(k - 1, n)
            /\ K > 0 => WindowEnd(K - 1, n) = n
            /\ \A k \in 1..(K - 1) :
                  WindowEnd(k - 1, n) - WindowStart(k) = chunk_overlap

C4_Witness ==
    /\ Returned("_split_by_tokens")
    /\ chunk_size = 10
    /\ chunk_overlap = 3
    /\ Len(encode(text)) = 25
    /\ Len(result) = 4
    /\ \A k \in 1..4 : result[k] = decode(SubSeq(encode(text), 7 * (k - 1) + 1,
                                                 Min(7 * (k - 1) + 10, 25)))

\* C5: a splitter whose chunk_overlap is not below its chunk_size is never
\* constructed, so none is ever ready for a call or in one.
C5_ConfigRejected ==
    pc \in {"ready", "running", "returned", "raised"} => chunk_overlap < chunk_size

\* C6: the chunks split_text returns, each without an overlap prefix copied
\* from the chunk before it (some prefix of at most chunk_overlap tokens that
\* ends the previous chunk), concatenate to the non-whitespace characters of
\* the input, in order.
OverlapPrefixes(prev, chunk) ==
    {j \in 0..Len(chunk) :
        /\ j <= Len(prev)
        /\ SubSeq(chunk, 1, j) = SubSeq(prev, Len(prev) - j + 1, Len(prev))
        /\ count_tokens(SubSeq(chunk, 1, j)) <= chunk_overlap}

RECURSIVE Rebuilt(_, _)
Rebuilt(chunks, k) ==
    IF k > Len(chunks) THEN {<<>>}
    ELSE LET cuts == IF k = 1 THEN {0} ELSE OverlapPrefixes(chunks[k - 1], chunks[k])
         IN  {NonWs(SubSeq(chunks[k], j + 1, Len(chunks[k]))) \o r :
                 j \in cuts, r \in Rebuilt(chunks, k + 1)}

C6_Reconstruction ==
    (Returned("split_text") /\ ValidConfig) => NonWs(text) \in Rebuilt(result, 1)

\* C7 as claimed: every chunk split_text returns (here: under a valid
\* configuration) is non-empty after trimming.
C7_NonEmptyTrimmed ==
    (Returned("split_text") /\ ValidConfig) => \A i \in 1..Len(result) : NonWs(result[i]) # <<>>

\* C7, amended: every chunk split_text returns is a non-empty string.
C7_NonEmpty ==
    Returned("split_text") => \A i \in 1..Len(result) : result[i] # <<>>

C7_Witness ==
    /\ Returned("split_text")
    /\ Len(result) >= 2
    /\ \E i \in 1..Len(result) : result[i] # <<>> /\ NonWs(result[i]) = <<>>

\* C8: split_text returns [] for the empty text and [text] for a non-empty
\* text of at most chunk_size tokens; it raises only on larger texts.
C8_BaseCases ==
    /\ Returned("split_text") =>
          /\ text = <<>> => result = <<>>
          /\ (text # <<>> /\ count_tokens(text) <= chunk_size) => result = <<text>>
    /\ (pc = "raised" /\ op = "split_text") => count_tokens(text) > chunk_size

C8_Witness ==
    /\ Returned("split_text")
    /\ Len(text) = 3
    /\ count_tokens(text) = chunk_size
    /\ result = <<text>>

(***************************************************************************)
(* Properties of the citation extractor.                                   *)
(***************************************************************************)
Extracted == cpc = "done"

\* the markers of the generated text, in their order in the text
Markers == matches

MinOf(S) == CHOOSE x \in S : \A y \in S : x <= y

\* The resolution policy as the specification words it: the first citation
\* of the marker's title (case-insensitively) and page, else the first
\* citation of the marker's title, else none.
TitleHits(m) ==
    {i \in 1..Len(available_citations) :
        Lower(available_citations[i].document_title) = Lower(m.doc_title)}

ExactHits(m) ==
    {i \in TitleHits(m) : available_citations[i].page_number = ParseInt(m.page_str)}

ResolvesTo(m) ==
    IF ExactHits(m) # {} THEN available_citations[MinOf(ExactHits(m))]
    ELSE IF TitleHits(m) # {} THEN available_citations[MinOf(TitleHits(m))]
    ELSE NoCitation

MarkersOf(c) == {k \in 1..Len(Markers) : ResolvesTo(Markers[k]) = c}

\* C9: every returned citation is an available one that some marker
\* resolves to, and the returned citations are ordered by the first marker
\* resolving to each.
C9_ReferencedInOrder ==
    Extracted =>
        /\ \A i \in 1..Len(used_citations) :
              /\ \E j \in 1..Len(available_citations) :
                    available_citations[j] = used_citations[i]
              /\ MarkersOf(used_citations[i]) # {}
        /\ \A i, j \in 1..Len(used_citations) :
              i < j => MinOf(MarkersOf(used_citations[i]))
                          < MinOf(MarkersOf(used_citations[j]))

C9_Witness ==
    /\ Extracted
    /\ Len(available_citations) = 2
    /\ Len(Markers) = 2
    /\ used_citations = <<available_citations[2], available_citations[1]>>

\* C10: a marker for which some available citation has its title
\* (case-insensitively) and its page resolves to the first such citation,
\* whatever precedes it in the list, and that citation is returned.
C10_ExactFirst ==
    Extracted =>
        \A k \in 1..Len(Markers) :
            ExactHits(Markers[k]) # {} =>
                /\ CitationToUse(available_citations, Markers[k])
                      = available_citations[MinOf(ExactHits(Markers[k]))]
                /\ IsUsed(available_citations[MinOf(ExactHits(Markers[k]))],
                          used_citations)

C10_Witness ==
    /\ Extracted
    /\ generated = <<"[", "A", ",", "p", ".", " ", "2", "]">>
    /\ Len(available_citations) = 2
    /\ available_citations[1].document_title = <<"A">>
    /\ available_citations[1].page_number = 1
    /\ available_citations[2].document_title = <<"A">>
    /\ available_citations[2].page_number = 2
    /\ used_citations = <<available_citations[2]>>

\* C11: a marker for which no available citation has its title and its page
\* resolves to the first citation, in list order, whose title is the
\* marker's case-insensitively, whatever its page, and that citation is
\* returned.
C11_FallbackFirstTitle ==
    Extracted =>
        \A k \in 1..Len(Markers) :
            (ExactHits(Markers[k]) = {} /\ TitleHits(Markers[k]) # {}) =>
                /\ CitationToUse(available_citations, Markers[k])
                      = available_citations[MinOf(TitleHits(Markers[k]))]
                /\ \E i \in 1..Len(used_citations) :
                      used_citations[i] = available_citations[MinOf(TitleHits(Markers[k]))]

C11_Witness ==
    /\ Extracted
    /\ generated = <<"[", "a", ",", " ", "p", ".", "1", "]">>
    /\ Len(available_citations) = 2
    /\ available_citations[1].document_title = <<"B">>
    /\ available_citations[2].document_title = <<"A">>
    /\ available_citations[2].page_number = 2
    /\ used_citations = <<available_citations[2]>>

\* C12: no two returned citations have the same document_title and
\* page_number, whatever the text and the available list, lists whose
\* entries share title and page and differ in chunk_text included.
C12_NoDuplicatePage ==
    Extracted =>
        \A i, j \in 1..Len(used_citations) :
            (/\ used_citations[i].document_title = used_citations[j].document_title
             /\ used_citations[i].page_number = used_citations[j].page_number)
                => i = j

C12_Witness ==
    /\ Extracted
    /\ Len(Markers) = 2
    /\ ParseInt(Markers[1].page_str) = 2
    /\ ParseInt(Markers[2].page_str) = 1
    /\ Len(available_citations) = 2
    /\ available_citations[1].document_title = <<"A">>
    /\ available_citations[2].document_title = <<"A">>
    /\ available_citations[1].page_number = 2
    /\ available_citations[2].page_number = 2
    /\ available_citations[1].chunk_text # available_citations[2].chunk_text
    /\ used_citations = <<available_citations[1]>>

\* C13: the extraction never raises; every match carries a page made of
\* digits and a title without a closing bracket; a text made of malformed
\* markers only (page that is no number, missing closing bracket) has no
\* match and returns nothing; and no more citations are returned than there
\* are markers resolving to an available citation.
MalformedPieces ==
    { <<"[", "A", ",", " ", "p", ".", "x", "]">>,
      <<"[", "A", ",", " ", "p", ".", "1">> }

MalformedTexts ==
    {Concat(ps) : ps \in UNION {[1..n -> MalformedPieces] : n \in 1..(MaxPieces + 1)}}

C13_DroppedQuietly ==
    /\ cpc # "raised"
    /\ Extracted =>
          /\ \A k \in 1..Len(Markers) :
                /\ Markers[k].page_str # <<>>
                /\ \A d \in 1..Len(Markers[k].page_str) :
                      Markers[k].page_str[d] \in {"0", "1", "2"}
                /\ \A d \in 1..Len(Markers[k].doc_title) :
                      Markers[k].doc_title[d] # "]"
          /\ generated \in MalformedTexts =>
                Markers = <<>> /\ used_citations = <<>>
          /\ Len(used_citations)
                <= Cardinality({k \in 1..Len(Markers) : ResolvesTo(Markers[k]) # NoCitation})

C13_Witness ==
    /\ Extracted
    /\ generated = <<"[", "A", ",", " ", "p", ".", "x", "]",
                     "[", "B", ",", " ", "p", ".", "0", "1", "]">>
    /\ Len(available_citations) = 1
    /\ available_citations[1].document_title = <<"A">>
    /\ Len(Markers) = 1
    /\ used_citations = <<>>

(***************************************************************************)
(* Properties of the paragraph locks.                                      *)
(***************************************************************************)
LockReturned(o) == lpc = "returned" /\ lop = o

\* The paragraphs of a text as the specification words them: the pieces
\* between boundaries (a boundary being a run of two or more line breaks),
\* trimmed of surrounding blanks and line breaks, the empty ones left out.
RECURSIVE DropLineBreaks(_)
DropLineBreaks(t) ==
    IF t # <<>> /\ Head(t) = NL THEN DropLineBreaks(Tail(t)) ELSE t

RECURSIVE PiecesBetweenBoundaries(_, _)
PiecesBetweenBoundaries(t, piece) ==
    IF t = <<>> THEN <<piece>>
    ELSE IF Len(t) >= 2 /\ t[1] = NL /\ t[2] = NL
         THEN <<piece>> \o PiecesBetweenBoundaries(DropLineBreaks(t), <<>>)
         ELSE PiecesBetweenBoundaries(Tail(t), Append(piece, Head(t)))

Trimmed(s) ==
    LET solid == {i \in 1..Len(s) : s[i] \notin {" ", NL}}
    IN  IF solid = {} THEN <<>>
        ELSE SubSeq(s, CHOOSE i \in solid : \A j \in solid : i <= j,
                       CHOOSE i \in solid : \A j \in solid : j <= i)

IsSolid(s) == s # <<>>

ExpectedParagraphs(t) ==
    LET pieces == PiecesBetweenBoundaries(t, <<>>)
    IN  SelectSeq([i \in 1..Len(pieces) |-> Trimmed(pieces[i])], IsSolid)

\* C14: split_into_paragraphs returns, in order, the trimmed pieces between
\* double-line-break boundaries that are not empty after trimming; no
\* returned paragraph is empty or holds a double line break; splitting the
\* returned paragraphs joined by a double line break gives them back.
C14_Paragraphs ==
    LockReturned("split_into_paragraphs") =>
        /\ lresult = ExpectedParagraphs(new_text)
        /\ \A i \in 1..Len(lresult) :
              lresult[i] # <<>> /\ ~StrIn(<<NL, NL>>, lresult[i])
        /\ split_into_paragraphs(StrJoin(<<NL, NL>>, lresult)) = lresult

C14_Witness ==
    /\ LockReturned("split_into_paragraphs")
    /\ new_text = <<" ", "b", NL, NL, NL, "a">>
    /\ lresult = << <<"b">>, <<"a">> >>

\* The merge as the specification words it: position i of 0..N-1 emits the
\* text locked at i (that of the last lock of i), else the new paragraph i,
\* else nothing.
LocksAt(i) == {k \in 1..Len(locked_paragraphs) : locked_paragraphs[k][1] = i}

Emitted(i, paragraphs) ==
    IF LocksAt(i) # {}
    THEN <<locked_paragraphs[CHOOSE k \in LocksAt(i) : \A j \in LocksAt(i) : j <= k][2]>>
    ELSE IF i < Len(paragraphs) THEN <<paragraphs[i + 1]>>
    ELSE <<>>

ExpectedMerge(paragraphs) ==
    LET indices == {locked_paragraphs[k][1] : k \in 1..Len(locked_paragraphs)}
        N == Max(Len(paragraphs), 1 + (CHOOSE m \in indices : \A j \in indices : j <= m))
    IN  Concat([i \in 1..N |-> Emitted(i - 1, paragraphs)])

\* C15: with a non-empty lock list merge_paragraphs_with_locks returns the
\* paragraphs emitted for the positions 0..N-1, N = max(number of new
\* paragraphs, 1 + largest lock index), joined by a blank line.
C15_PositionalMerge ==
    (LockReturned("merge_paragraphs_with_locks") /\ locked_paragraphs # <<>>) =>
        lresult = StrJoin(<<NL, NL>>, ExpectedMerge(split_into_paragraphs(new_text)))

C15_Witness ==
    /\ LockReturned("merge_paragraphs_with_locks")
    /\ new_text = <<"a", NL, NL, "b", NL, NL, "a">>
    /\ locked_paragraphs = << <<1, <<"L">> >> >>
    /\ lresult = <<"a", NL, NL, "L", NL, NL, "a">>

(***************************************************************************)
(* Properties of the section routes.                                       *)
(***************************************************************************)
\* the last request was a successful one of this handler
Handled(h) == request.handler = h /\ response.status = 200

StoredParagraphs == split_into_paragraphs(section_data.text)

StoredLocks == section_data.locked_paragraphs_data

\* C16: in the text a regeneration stores, every locked paragraph is the
\* paragraph at its lock index, also when the index lies beyond the
\* paragraphs of the new text.
C16_LockedAtIndex ==
    Handled("regenerate_section") =>
        \A k \in 1..Len(StoredLocks) :
            /\ StoredLocks[k].index < Len(StoredParagraphs)
            /\ StoredParagraphs[StoredLocks[k].index + 1] = StoredLocks[k].text

\* C17: every successful regenerate_section, whatever text the language
\* model returns, stores a text that has the frozen text of each paragraph
\* locked before it among its paragraphs.
C17_LocksSurvive ==
    [][(request'.handler = "regenerate_section" /\ response'.status = 200) =>
          \A k \in 1..Len(StoredLocks) :
              \E i \in 1..Len(split_into_paragraphs(section_data'.text)) :
                  split_into_paragraphs(section_data'.text)[i] = StoredLocks[k].text]_vars

C17_Witness ==
    /\ Handled("regenerate_section")
    /\ StoredLocks = <<[index |-> 1, text |-> <<"b">>]>>
    /\ section_data.text = <<"b">>

\* C18: the stored lock list holds at most one entry per index.
C18_OneLockPerIndex ==
    \A j, k \in 1..Len(StoredLocks) :
        StoredLocks[j].index = StoredLocks[k].index => j = k

\* C19: an update_section of an existing section succeeds whatever indices
\* it names, stores (and returns) the requested indices that lie in
\* [0, number of paragraphs of the submitted text), in the order requested,
\* and freezes for each the paragraph of the submitted text at that index.
SubmittedParagraphs == split_into_paragraphs(request.text)

InRange(idx) == 0 <= idx /\ idx < Len(SubmittedParagraphs)

C19_ValidLocksStored ==
    (request.handler = "update_section" /\ section_data.exists) =>
        /\ response.status = 200
        /\ section_data.locked_paragraphs
              = SelectSeq(request.locked_paragraph_indices, InRange)
        /\ response.locked_paragraphs = section_data.locked_paragraphs
        /\ Len(StoredLocks) = Len(section_data.locked_paragraphs)
        /\ \A k \in 1..Len(StoredLocks) :
              /\ StoredLocks[k].index = section_data.locked_paragraphs[k]
              /\ StoredLocks[k].text = SubmittedParagraphs[StoredLocks[k].index + 1]

C19_Witness ==
    /\ Handled("update_section")
    /\ request.text = <<"a", NL, NL, NL, "b">>
    /\ request.locked_paragraph_indices = <<-1, 1>>
    /\ StoredLocks = <<[index |-> 1, text |-> <<"b">>]>>

\* C20: the response of an update_section that dropped requested indices
\* tells which: it names each dropped index, or at least carries a warning
\* of its own.
DroppedIndices ==
    {request.locked_paragraph_indices[k] : k \in 1..Len(request.locked_paragraph_indices)}
        \ {idx \in (-1)..MaxSecParas : InRange(idx)}

C20_DroppedReported ==
    (Handled("update_section") /\ DroppedIndices # {}) =>
        \/ \A idx \in DroppedIndices :
              \E k \in 1..Len(response.locked_paragraphs) :
                  response.locked_paragraphs[k] = idx
        \/ response.warning # section_data.warning

\* C21: a request that is not a successful update_section keeps every
\* stored locked paragraph, index and frozen text.
C21_LocksKept ==
    [][~(request'.handler = "update_section" /\ response'.status = 200) =>
          \A k \in 1..Len(StoredLocks) :
              \E j \in 1..Len(section_data'.locked_paragraphs_data) :
                  section_data'.locked_paragraphs_data[j] = StoredLocks[k]]_vars

\* the number of non-empty whitespace-delimited runs of a text: the
\* positions that hold no whitespace and follow the start or a whitespace
Runs(t) ==
    Cardinality({i \in 1..Len(t) :
                    /\ t[i] \notin {" ", NL}
                    /\ (i = 1 \/ t[i - 1] \in {" ", NL})})

\* C22: after every successful generate_section, update_section and
\* regenerate_section the stored word_count is the number of non-empty
\* whitespace-delimited runs of the stored text.
C22_WordCount ==
    (\E h \in {"generate_section", "update_section", "regenerate_section"} : Handled(h))
        => section_data.word_count = Runs(section_data.text)

C22_Witness ==
    /\ Handled("regenerate_section")
    /\ section_data.text = <<"a", " ", "b", NL, NL, "b">>
    /\ StoredLocks # <<>>
    /\ section_data.word_count = 3

\* C28: a successful regenerate_section leaves section_id, the lock index
\* list and the frozen lock texts as they were; one that fails leaves the
\* stored section as it was.
C28_RegenerateFrame ==
    [][request'.handler = "regenerate_section" =>
          IF response'.status = 200
          THEN /\ section_data'.section_id = section_data.section_id
               /\ section_data'.locked_paragraphs = section_data.locked_paragraphs
               /\ section_data'.locked_paragraphs_data
                     = section_data.locked_paragraphs_data
               /\ section_data'.exists
          ELSE section_data' = section_data]_vars

C28_Witness ==
    /\ Handled("regenerate_section")
    /\ section_data.section_id = 2
    /\ section_data.locked_paragraphs = <<1, 0>>
    /\ section_data.text = <<"a", NL, NL, "b">>
    /\ StoredLocks = <<[index |-> 1, text |-> <<"b">>], [index |-> 0, text |-> <<"a">>]>>

\* C29: a generate_section or regenerate_section called with a word_limit
\* that returns a word_count above it returns a warning.
C29_WarningOverLimit ==
    \A h \in {"generate_section", "regenerate_section"} :
        (Handled(h) /\ request.word_limit # 0
            /\ response.word_count > request.word_limit)
                => response.warning # "None"

\* C23: a document that yields no chunks (no pages, or no page text that
\* is more than whitespace) is reported as a non-error outcome with an empty
\* chunk list, told apart from the report of a failure.
C23_NoChunksIsNoError ==
    ipc \in {"return 66", "return 105"}
        => /\ index_result.success
           /\ index_result.chunk_count = 0
           /\ index_result.error = "None"

\* a turn of the loop of _merge_splits that closed the running chunk and
\* went on in the same activation: the next segment fitted the budget by
\* itself but not after the running chunk (lines 107-115)
ClosedForNextSegment ==
    /\ pc = "running"
    /\ stack # <<>>
    /\ Top.phase = "merge"
    /\ Len(stack') = Len(stack)
    /\ Top'.phase = "merge"
    /\ Len(Top'.chunks) = Len(Top.chunks) + 1

\* the decoding of the last min(k, token count) tokens of a text
TrailingTokens(t, k) ==
    LET tokens == encode(t)
        n == Min(k, Len(tokens))
    IN  decode(SubSeq(tokens, Len(tokens) - n + 1, Len(tokens)))

\* C24: when _merge_splits closes a chunk because the next segment does not
\* fit, the next chunk starts with the decoding of the last
\* min(chunk_overlap, token count) tokens of the chunk just closed, followed
\* by that segment; with chunk_overlap = 0 it starts with the segment alone.
C24_OverlapSeed ==
    [][ClosedForNextSegment =>
          LET closed == Top'.chunks[Len(Top'.chunks)]
              segment == Head(Top.splits)
          IN  Top'.current_chunk =
                  IF chunk_overlap = 0 THEN <<segment>>
                  ELSE <<TrailingTokens(closed, chunk_overlap), segment>>]_vars

C24_Witness ==
    /\ pc = "running"
    /\ stack # <<>>
    /\ Top.phase = "merge"
    /\ chunk_size = 3
    /\ chunk_overlap = 1
    /\ Top.chunks # <<>>
    /\ Len(encode(Top.chunks[Len(Top.chunks)])) > 1
    /\ Len(Top.current_chunk) = 2
    /\ Top.current_chunk[1] = TrailingTokens(Top.chunks[Len(Top.chunks)], 1)
    /\ Top.current_chunk[1] # Top.chunks[Len(Top.chunks)]

\* C25: with an empty lock list merge_paragraphs_with_locks returns the
\* paragraphs of new_text, trimmed and without the empty ones, joined by
\* one blank line, whatever whitespace new_text has.
C25_EmptyLocksRejoined ==
    (LockReturned("merge_paragraphs_with_locks") /\ locked_paragraphs = <<>>)
        => lresult = StrJoin(<<NL, NL>>, split_into_paragraphs(new_text))

\* C27: after any sequence of funding-call and supporting-document uploads
\* the session's total_upload_size_bytes is at most 50 MB.
C27_QuotaKept == session.total_upload_size_bytes <= MAX_TOTAL_SIZE

\* C30: GeneratedSection.merge_with_locked_paragraphs returns, for every
\* new_text and every lock list, the text merge_paragraphs_with_locks
\* returns for the same new_text and the locks as (index, text) pairs.
C30_SameMerge ==
    LockReturned("merge_with_locked_paragraphs")
        => lresult = merge_paragraphs_with_locks(new_text, locked_paragraphs)

C30_Witness ==
    /\ LockReturned("merge_with_locked_paragraphs")
    /\ new_text = <<"a">>
    /\ locked_paragraphs = << <<2, <<"L">> >> >>
    /\ lresult = <<"a", NL, NL, "L">>

\* every request has been answered
Quiescent == \A i \in 1..MaxInFlight : in_flight[i].handler = "none"

\* C26: under any interleaving of update_section and regenerate_section
\* requests for one section no update is lost: a regenerate_section that has
\* read the locks writes the text before any other handler has changed
\* them, and once every request is answered the stored locks are those the
\* last update_section wrote and each one's text is a paragraph of the
\* stored text.
C26_NoLostUpdate ==
    /\ \A i \in 1..MaxInFlight :
          in_flight[i].pos = "generating"
              => /\ in_flight[i].locked_data = StoredLocks
                 /\ in_flight[i].locked_indices = section_data.locked_paragraphs
    /\ (Quiescent /\ section_data.exists)
          => /\ StoredLocks = last_update
             /\ \A k \in 1..Len(StoredLocks) :
                   \E j \in 1..Len(split_into_paragraphs(section_data.text)) :
                      split_into_paragraphs(section_data.text)[j] = StoredLocks[k].text

\* a regenerate_section has read the lock of paragraph "a" and is generating
\* while an update_section that locks "b" at the same index waits
C26_Witness ==
    /\ in_flight[1].pos = "generating"
    /\ in_flight[1].locked_data = <<[index |-> 0, text |-> <<"a">>]>>
    /\ in_flight[2] = UpdateSlot(<<"b">>, <<0>>)

====
